---- MODULE Spec2Model ----
(***************************************************************************)
(* A model of mezzanine/pages/middleware.py: PageMiddleware.process_view   *)
(* (the per-request page hook) and PageMiddleware.installed (the memoized  *)
(* "is the middleware installed" check).                                   *)
(*                                                                         *)
(* process_view is modelled step by step: every call it makes to code      *)
(* outside the file (path_to_slug, the page lookup, the dispatched view,   *)
(* the fallback page view, each page processor) is one step whose outcome  *)
(* is drawn from a small set, and `calls` records the calls in order.      *)
(*                                                                         *)
(* Python values are records: PyStr(s) and PyInt(i) for hashable scalars, and  *)
(* [t |-> <type name>, ...] for what a processor may return.  Text (paths, *)
(* URLs) is a sequence of tokens, one token per character or word.         *)
(***************************************************************************)
EXTENDS Integers, Sequences, FiniteSets, TLC

VARIABLES
    pc,          \* position of process_view: idle, config, lookup, login, view, except, page_view, load, loop, done
    settings,    \* [TEMPLATE_CONTEXT_PROCESSORS : set of dotted names]
    processors,  \* page_processors.processors: key -> sequence of (processor, exact_page)
    request,     \* the request: path, query, user.is_authenticated(), the "page" attribute
    view_func,   \* the view the URL dispatcher resolved
    slug,        \* local: path_to_slug(request.path_info)
    page,        \* local: pages[0]
    response,    \* local: the response being built
    queue,       \* the rest of slug_processors + model_processors
    calls,       \* the calls made so far by this process_view, in order
    result,      \* what process_view returned or raised
    installedAttr, \* the _installed attribute in each class's own __dict__
    MIDDLEWARE_CLASSES, \* settings.MIDDLEWARE_CLASSES
    tpc,         \* per thread: position inside installed()
    tcls,        \* per thread: the class installed() was called on
    tlocal,      \* per thread: the local variable `installed`
    scans,       \* how many times the settings scan has run
    returned     \* the values installed() has returned, in order

pvVars == <<pc, settings, processors, request, view_func, slug, page, response, queue, calls, result>>
instVars == <<installedAttr, MIDDLEWARE_CLASSES, tpc, tcls, tlocal, scans, returned>>
vars == <<pvVars, instVars>>

-----------------------------------------------------------------------------
(* Python values *)

PyStr(s) == [str |-> s]
PyInt(i) == [int |-> i]
IsInt(k) == DOMAIN k = {"int"}

None == [t |-> "None"]
Dict(d) == [t |-> "dict", d |-> d]
List(l) == [t |-> "list", l |-> l]
Number(n) == [t |-> "int", n |-> n]
HttpResponse(by, cd) == [t |-> "HttpResponse", by |-> by, context_data |-> cd]
Missing == [t |-> "missing"]

NoRequest == [none |-> TRUE]
NoPage == [none |-> TRUE]
NoResponse == [none |-> TRUE]
Running == [kind |-> "running"]

\* isinstance(v, HttpResponse)
IsHttpResponse(v) == v.t = "HttpResponse"

\* bool(v), the test of ``elif processor_response:``
Truthy(v) ==
    CASE v.t = "None" -> FALSE
      [] v.t = "dict" -> DOMAIN v.d # {}
      [] v.t = "list" -> Len(v.l) > 0
      [] v.t = "int" -> v.n # 0
      [] OTHER -> TRUE

-----------------------------------------------------------------------------
(* The inputs: settings, requests, pages, the processor registry *)

CP == "mezzanine.pages.context_processors.page"

\* settings.TEMPLATE_CONTEXT_PROCESSORS, with and without the page context processor
TemplateContextProcessorLists == { {CP, "django.core.context_processors.request"},
                                   {"django.core.context_processors.request"} }

LOGIN_URL == <<"/", "accounts", "/", "login", "/">>
REDIRECT_FIELD_NAME == "next"

\* request.path / request.path_info and the query string, as token sequences
Requests ==
    { [path |-> p.path, query |-> p.query, authenticated |-> a, page |-> NoPage] :
        p \in { [path |-> <<"/", "blog", "/">>, query |-> <<>>],
                [path |-> <<"/", "blog", "/", "a", " ", "b", "/">>,
                 query |-> <<"x", "=", "1", "&", "y">>] },
        a \in BOOLEAN }

page_view == "mezzanine.pages.views.page"
ViewFuncs == {page_view, "blog.views.blog_post_detail"}

Slugs == {"blog", "blog/about"}
ContentModels == {"richtextpage", "link"}

Pages == [slug : Slugs, login_required : BOOLEAN, content_model : ContentModels,
          is_current : BOOLEAN]

\* The slugs a page found for `s` can have: `s` itself or an ascendant of it.
SelfOrAscendants(s) == IF s = "blog/about" THEN {"blog/about", "blog"} ELSE {s}

\* Page.objects.with_ascendants_for_slug(slug, ...): the possible results,
\* most specific page first (only pages[0] is read).
with_ascendants_for_slug(s) ==
    {<<>>} \cup { <<p>> : p \in {q \in Pages : q.slug \in SelfOrAscendants(s)} }

Entry(p, e) == [processor |-> p, exact_page |-> e]

\* page_processors.processors, as populated at startup
Registries ==
    { [k \in {"slug:blog", "richtextpage", "link"} |->
         CASE k = "slug:blog" -> <<Entry("P1", TRUE), Entry("P2", FALSE)>>
           [] k = "richtextpage" -> <<Entry("P3", FALSE)>>
           [] k = "link" -> <<Entry("P3", TRUE)>>],
      [k \in {"slug:blog/about", "richtextpage"} |->
         CASE k = "slug:blog/about" -> <<Entry("P1", FALSE)>>
           [] k = "richtextpage" -> <<Entry("P2", TRUE), Entry("P1", FALSE)>>] }

\* processors[key] of a defaultdict(list)
ProcessorsFor(key) == IF key \in DOMAIN processors THEN processors[key] ELSE <<>>

\* "slug:%s" % page.slug
SlugKey(s) == "slug:" \o s

Ka == PyStr("a")
Kb == PyStr("b")

\* response.context_data of a response a view may return: a dict, None (a
\* TemplateResponse built without a context) or no such attribute (a plain
\* HttpResponse)
ContextDatas == { Dict(<<>>), Dict(Ka :> PyStr("view")), None, Missing }

\* What calling a view can do: return a response, raise Http404, raise another error
ViewOutcomes(by) ==
    { [raises |-> "", response |-> HttpResponse(by, cd)] : cd \in ContextDatas }
    \cup { [raises |-> "Http404"], [raises |-> "Exception"] }

\* What calling processor p can do: return a value, or raise
ProcessorOutcomes(p) ==
    { [raises |-> "", value |-> v] :
        v \in { None,
                HttpResponse(p, Dict(Kb :> PyStr(p))),
                Dict(<<>>),
                Dict(Ka :> PyStr(p)),
                Dict((Ka :> PyStr(p)) @@ (Kb :> PyStr(p))),
                List(<<>>),
                List(<<Ka>>),
                List(<<PyInt(0)>>),
                List(<<PyInt(5)>>),
                List(<<PyInt(0), Ka>>),
                Number(5) } }
    \cup { [raises |-> "Exception"] }

-----------------------------------------------------------------------------
(* urlquote and the redirect *)

\* urlquote(...) with the default safe="/": one token
QuoteToken(c) ==
    CASE c = " " -> "%20"
      [] c = "%" -> "%25"
      [] c = "&" -> "%26"
      [] c = "=" -> "%3D"
      [] c = "?" -> "%3F"
      [] OTHER -> c

urlquote(s) == [i \in 1..Len(s) |-> QuoteToken(s[i])]

\* request.get_full_path()
get_full_path(r) == IF r.query # <<>> THEN r.path \o <<"?">> \o r.query ELSE r.path

\* redirect("%s?%s=%s" % (settings.LOGIN_URL, REDIRECT_FIELD_NAME, path))
LoginRedirect(r) ==
    [kind |-> "redirect",
     url |-> LOGIN_URL \o <<"?", REDIRECT_FIELD_NAME, "=">> \o urlquote(get_full_path(r))]

\* faulty variant: the authentication test is inverted
MustLogin_Inverted(p, r) == p.login_required /\ r.authenticated

\* ``page.login_required and not request.user.is_authenticated()``
MustLogin(p, r) == p.login_required /\ ~r.authenticated

-----------------------------------------------------------------------------
(* Merging a processor's return value into response.context_data *)

RECURSIVE SetToSeq(_)
SetToSeq(S) == IF S = {} THEN <<>> ELSE LET x == CHOOSE y \in S : TRUE IN <<x>> \o SetToSeq(S \ {x})

\* ``for k in processor_response``: the keys iterated, or TypeError
Iterate(v) ==
    CASE v.t = "dict" -> [exc |-> "", keys |-> SetToSeq(DOMAIN v.d)]
      [] v.t = "list" -> [exc |-> "", keys |-> v.l]
      [] OTHER -> [exc |-> "TypeError", keys |-> <<>>]

\* faulty variant: the membership test is dropped, every key is assigned
NotIn_Always(k, cd) ==
    CASE cd.t = "dict" -> [exc |-> "", value |-> TRUE]
      [] cd.t = "None" -> [exc |-> "TypeError", value |-> FALSE]
      [] OTHER -> [exc |-> "AttributeError", value |-> FALSE]

\* ``k not in response.context_data``
NotIn(k, cd) ==
    CASE cd.t = "dict" -> [exc |-> "", value |-> k \notin DOMAIN cd.d]
      [] cd.t = "None" -> [exc |-> "TypeError", value |-> FALSE]
      [] OTHER -> [exc |-> "AttributeError", value |-> FALSE]

\* ``processor_response[k]``
GetItem(v, k) ==
    CASE v.t = "dict" -> [exc |-> "", value |-> v.d[k]]
      [] v.t = "list" ->
           IF ~IsInt(k) THEN [exc |-> "TypeError", value |-> None]
           ELSE IF k.int >= Len(v.l) \/ k.int < -Len(v.l) THEN [exc |-> "IndexError", value |-> None]
           ELSE [exc |-> "", value |-> v.l[(k.int % Len(v.l)) + 1]]
      [] OTHER -> [exc |-> "TypeError", value |-> None]

\* ``response.context_data[k] = v``
SetItem(cd, k, v) == [cd EXCEPT !.d = (k :> v) @@ cd.d]

\* The body of the loop of lines 125-127 from the i-th key on
RECURSIVE MergeFrom(_, _, _, _)
MergeFrom(cd, v, keys, i) ==
    IF i > Len(keys) THEN [exc |-> "", context_data |-> cd]
    ELSE LET k == keys[i]
             n == NotIn(k, cd)
         IN IF n.exc # "" THEN [exc |-> n.exc, context_data |-> cd]
            ELSE IF ~n.value THEN MergeFrom(cd, v, keys, i + 1)
            ELSE LET g == GetItem(v, k)
                 IN IF g.exc # "" THEN [exc |-> g.exc, context_data |-> cd]
                    ELSE MergeFrom(SetItem(cd, k, g.value), v, keys, i + 1)

\* The try block of lines 124-127
Merge(cd, v) ==
    LET it == Iterate(v)
    IN IF it.exc # "" THEN [exc |-> it.exc, context_data |-> cd]
       ELSE MergeFrom(cd, v, it.keys, 1)

\* faulty variant: only ValueError is caught
Caught_ValueErrorOnly(exc) == exc = "ValueError"

\* ``except (TypeError, ValueError)``
Caught(exc) == exc \in {"TypeError", "ValueError"}

\* ``if exact_page and not page.is_current: continue``
Skipped(e, p) == e.exact_page /\ ~p.is_current

\* faulty variant: the two lists are concatenated the other way round
ProcessorOrder_ModelFirst(p) == ProcessorsFor(p.content_model) \o ProcessorsFor(SlugKey(p.slug))

\* ``slug_processors + model_processors``
ProcessorOrder(p) == ProcessorsFor(SlugKey(p.slug)) \o ProcessorsFor(p.content_model)

\* faulty variant: the content-model test is missing
FallBackToPageView_NoLinkTest(p, s, vf) == p.slug = s /\ vf # page_view

\* the condition of lines 105-106
FallBackToPageView(p, s, vf) == p.slug = s /\ vf # page_view /\ p.content_model # "link"

Raise(exc) == [kind |-> "raise", exc |-> exc]
RaiseValueError(p, v) == [kind |-> "raise", exc |-> "ValueError", processor |-> p, type |-> v.t]

-----------------------------------------------------------------------------
(* process_view, lines 65-135 *)

\* faulty variant: the configuration check is skipped
Configured_Unchecked == TRUE

\* line 71: the page context processor is configured
Configured == CP \in settings.TEMPLATE_CONTEXT_PROCESSORS

\* faulty variant: the early return is missing, the hook goes on to the view
AfterLookup_NoReturn(pages) ==
    IF pages # <<>>
    THEN [pc |-> "login", page |-> pages[1], result |-> Running]
    ELSE [pc |-> "view", page |-> NoPage, result |-> Running]

\* lines 80-84: with a page found the hook goes on, with none it returns None
\* and sets no attribute
AfterLookup(pages) ==
    IF pages # <<>>
    THEN [pc |-> "login", page |-> pages[1], result |-> Running]
    ELSE [pc |-> "done", page |-> NoPage, result |-> [kind |-> "None"]]

PvInit ==
    /\ pc = "idle"
    /\ settings \in [TEMPLATE_CONTEXT_PROCESSORS : TemplateContextProcessorLists]
    /\ processors \in Registries
    /\ request = NoRequest
    /\ view_func = ""
    /\ slug = ""
    /\ page = NoPage
    /\ response = NoResponse
    /\ queue = <<>>
    /\ calls = <<>>
    /\ result = Running

Finish(r) == pc' = "done" /\ result' = r

\* The framework calls the hook with a request and the resolved view.
Call ==
    /\ pc = "idle"
    /\ pc' = "config"
    /\ \E r \in Requests, vf \in ViewFuncs : request' = r /\ view_func' = vf
    /\ UNCHANGED <<settings, processors, slug, page, response, queue, calls, result>>
    /\ UNCHANGED instVars

\* lines 70-73
CheckConfig ==
    /\ pc = "config"
    /\ IF ~Configured
       THEN Finish(Raise("ImproperlyConfigured"))
       ELSE pc' = "lookup" /\ UNCHANGED result
    /\ UNCHANGED <<settings, processors, request, view_func, slug, page, response, queue, calls>>
    /\ UNCHANGED instVars

\* lines 77-84: path_to_slug, the page lookup, and the "page" attribute
Lookup ==
    /\ pc = "lookup"
    /\ \E s \in Slugs : \E pages \in with_ascendants_for_slug(s) :
         /\ slug' = s
         /\ calls' = Append(calls, [fn |-> "with_ascendants_for_slug", slug |-> s,
                                     pages |-> pages])
         /\ LET a == AfterLookup(pages) IN
              /\ pc' = a.pc
              /\ page' = a.page
              /\ request' = [request EXCEPT !.page = a.page]
              /\ result' = a.result
    /\ UNCHANGED <<settings, processors, view_func, response, queue>>
    /\ UNCHANGED instVars

\* lines 87-90
CheckLogin ==
    /\ pc = "login"
    /\ IF MustLogin(page, request)
       THEN Finish(LoginRedirect(request))
       ELSE pc' = "view" /\ UNCHANGED result
    /\ UNCHANGED <<settings, processors, request, view_func, slug, page, response, queue, calls>>
    /\ UNCHANGED instVars

\* lines 102-104: the dispatched view runs
CallView ==
    /\ pc = "view"
    /\ \E o \in ViewOutcomes(view_func) :
         /\ calls' = Append(calls, [fn |-> "view_func", view |-> view_func, outcome |-> o])
         /\ CASE o.raises = "" -> pc' = "load" /\ response' = o.response /\ UNCHANGED result
              [] o.raises = "Http404" -> pc' = "except" /\ UNCHANGED <<response, result>>
              [] OTHER -> Finish(Raise(o.raises)) /\ UNCHANGED response
    /\ UNCHANGED <<settings, processors, request, view_func, slug, page, queue>>
    /\ UNCHANGED instVars

\* lines 105-112: the except clause decides between the page view and re-raising
HandleHttp404 ==
    /\ pc = "except"
    /\ IF FallBackToPageView(page, slug, view_func)
       THEN pc' = "page_view" /\ UNCHANGED result
       ELSE Finish(Raise("Http404"))
    /\ UNCHANGED <<settings, processors, request, view_func, slug, page, response, queue, calls>>
    /\ UNCHANGED instVars

\* line 110: page_view(request, slug, **view_kwargs)
CallPageView ==
    /\ pc = "page_view"
    /\ \E o \in ViewOutcomes(page_view) :
         /\ calls' = Append(calls, [fn |-> "page_view", slug |-> slug, outcome |-> o])
         /\ IF o.raises = ""
            THEN pc' = "load" /\ response' = o.response /\ UNCHANGED result
            ELSE Finish(Raise(o.raises)) /\ UNCHANGED response
    /\ UNCHANGED <<settings, processors, request, view_func, slug, page, queue>>
    /\ UNCHANGED instVars

\* lines 115-117: the processors to run, in order
LoadProcessors ==
    /\ pc = "load"
    /\ queue' = ProcessorOrder(page)
    /\ pc' = "loop"
    /\ UNCHANGED <<settings, processors, request, view_func, slug, page, response, calls, result>>
    /\ UNCHANGED instVars

\* lines 118-119: a processor for the exact page only, on a page that is not current
SkipProcessor ==
    /\ pc = "loop"
    /\ queue # <<>>
    /\ Skipped(Head(queue), page)
    /\ queue' = Tail(queue)
    /\ UNCHANGED <<pc, settings, processors, request, view_func, slug, page, response, calls, result>>
    /\ UNCHANGED instVars

\* faulty variant: a processor's response is merged like a mapping; the loop goes on
HandleReturn_NoShortCircuit(p, v, cd) ==
    IF ~Truthy(v) \/ IsHttpResponse(v) THEN [result |-> Running, context_data |-> cd]
    ELSE LET m == Merge(cd, v)
         IN IF m.exc = "" THEN [result |-> Running, context_data |-> m.context_data]
            ELSE IF Caught(m.exc) THEN [result |-> RaiseValueError(p, v), context_data |-> m.context_data]
            ELSE [result |-> Raise(m.exc), context_data |-> m.context_data]

\* What lines 121-133 do with the value a processor returned:
\* [result: what process_view returns or raises now, or Running; context_data]
HandleReturn(p, v, cd) ==
    IF IsHttpResponse(v) THEN [result |-> [kind |-> "response", response |-> v], context_data |-> cd]
    ELSE IF ~Truthy(v) THEN [result |-> Running, context_data |-> cd]
    ELSE LET m == Merge(cd, v)
         IN IF m.exc = "" THEN [result |-> Running, context_data |-> m.context_data]
            ELSE IF Caught(m.exc) THEN [result |-> RaiseValueError(p, v), context_data |-> m.context_data]
            ELSE [result |-> Raise(m.exc), context_data |-> m.context_data]

\* lines 120-133: one processor runs and its return value is handled
RunProcessor ==
    /\ pc = "loop"
    /\ queue # <<>>
    /\ ~Skipped(Head(queue), page)
    /\ LET p == Head(queue).processor IN
       \E o \in ProcessorOutcomes(p) :
         /\ calls' = Append(calls, [fn |-> "processor", processor |-> p, outcome |-> o])
         /\ queue' = Tail(queue)
         /\ IF o.raises # ""
            THEN Finish(Raise(o.raises)) /\ UNCHANGED response
            ELSE LET h == HandleReturn(p, o.value, response.context_data) IN
                 /\ response' = [response EXCEPT !.context_data = h.context_data]
                 /\ IF h.result = Running THEN UNCHANGED <<pc, result>> ELSE Finish(h.result)
    /\ UNCHANGED <<settings, processors, request, view_func, slug, page>>
    /\ UNCHANGED instVars

\* line 135
ReturnResponse ==
    /\ pc = "loop"
    /\ queue = <<>>
    /\ Finish([kind |-> "response", response |-> response])
    /\ UNCHANGED <<settings, processors, request, view_func, slug, page, response, queue, calls>>
    /\ UNCHANGED instVars

\* The call is over; the hook keeps nothing of it.
Done ==
    /\ pc = "done"
    /\ pc' = "idle"
    /\ request' = NoRequest
    /\ view_func' = ""
    /\ slug' = ""
    /\ page' = NoPage
    /\ response' = NoResponse
    /\ queue' = <<>>
    /\ calls' = <<>>
    /\ result' = Running
    /\ UNCHANGED <<settings, processors>>
    /\ UNCHANGED instVars

-----------------------------------------------------------------------------
(* installed(), lines 42-63 *)

PageMiddleware == "mezzanine.pages.middleware.PageMiddleware"
SubA == "site.middleware.SubA"      \* class SubA(PageMiddleware)
SubB == "site.middleware.SubB"      \* class SubB(PageMiddleware)
Other == "django.middleware.common.CommonMiddleware"

\* the classes installed() can be called on
Classes == {PageMiddleware, SubA, SubB}

\* issubclass(c, cls)
IsSubclass(c, cls) == c = cls \/ (c \in {SubA, SubB} /\ cls = PageMiddleware)

MiddlewareLists == { <<Other, PageMiddleware>>, <<Other, SubB>>, <<Other>> }

NumThreads == 2
MaxCalls == 3
Threads == 1..NumThreads

\* a class's own _installed attribute: absent, or a boolean
Unset == [unset |-> TRUE]
Attr(v) == [value |-> v]

\* ``cls._installed``: the class's own attribute, else the one inherited
\* from PageMiddleware, else AttributeError
GetInstalled(cls) ==
    IF installedAttr[cls] # Unset THEN [exc |-> "", value |-> installedAttr[cls].value]
    ELSE IF installedAttr[PageMiddleware] # Unset
         THEN [exc |-> "", value |-> installedAttr[PageMiddleware].value]
    ELSE [exc |-> "AttributeError", value |-> FALSE]

\* ``setattr(cls, "_installed", installed)``
SetInstalled(cls, v) == [installedAttr EXCEPT ![cls] = Attr(v)]

\* lines 55-61: the dotted path is listed, or a listed class is a subclass of cls
ScanMiddleware(cls, mc) ==
    (\E i \in 1..Len(mc) : mc[i] = PageMiddleware)
    \/ (\E i \in 1..Len(mc) : IsSubclass(mc[i], cls))

InstInit ==
    /\ installedAttr = [c \in Classes |-> Unset]
    /\ MIDDLEWARE_CLASSES \in MiddlewareLists
    /\ tpc = [t \in Threads |-> "idle"]
    /\ tcls = [t \in Threads |-> PageMiddleware]
    /\ tlocal = [t \in Threads |-> FALSE]
    /\ scans = 0
    /\ returned = <<>>

InFlight == Cardinality({t \in Threads : tpc[t] # "idle"})

\* A thread calls installed() on PageMiddleware or a subclass.
InstalledCall(t) ==
    /\ tpc[t] = "idle"
    /\ Len(returned) + InFlight < MaxCalls
    /\ \E c \in Classes : tcls' = [tcls EXCEPT ![t] = c]
    /\ tpc' = [tpc EXCEPT ![t] = "try"]
    /\ UNCHANGED <<installedAttr, MIDDLEWARE_CLASSES, tlocal, scans, returned>>
    /\ UNCHANGED pvVars

\* lines 52-54
TryCached(t) ==
    /\ tpc[t] = "try"
    /\ LET g == GetInstalled(tcls[t]) IN
       IF g.exc = ""
       THEN /\ returned' = Append(returned, g.value)
            /\ tpc' = [tpc EXCEPT ![t] = "idle"]
       ELSE /\ tpc' = [tpc EXCEPT ![t] = "scan"]
            /\ UNCHANGED returned
    /\ UNCHANGED <<installedAttr, MIDDLEWARE_CLASSES, tcls, tlocal, scans>>
    /\ UNCHANGED pvVars

\* lines 55-61
Scan(t) ==
    /\ tpc[t] = "scan"
    /\ tlocal' = [tlocal EXCEPT ![t] = ScanMiddleware(tcls[t], MIDDLEWARE_CLASSES)]
    /\ scans' = scans + 1
    /\ tpc' = [tpc EXCEPT ![t] = "set"]
    /\ UNCHANGED <<installedAttr, MIDDLEWARE_CLASSES, tcls, returned>>
    /\ UNCHANGED pvVars

\* lines 62-63
SetAndReturn(t) ==
    /\ tpc[t] = "set"
    /\ installedAttr' = SetInstalled(tcls[t], tlocal[t])
    /\ returned' = Append(returned, tlocal[t])
    /\ tpc' = [tpc EXCEPT ![t] = "idle"]
    /\ tlocal' = [tlocal EXCEPT ![t] = FALSE]
    /\ UNCHANGED <<MIDDLEWARE_CLASSES, tcls, scans>>
    /\ UNCHANGED pvVars

\* The configured middleware list is replaced (settings are reloaded or overridden).
ChangeSettings ==
    /\ \E mc \in MiddlewareLists \ {MIDDLEWARE_CLASSES} : MIDDLEWARE_CLASSES' = mc
    /\ UNCHANGED <<installedAttr, tpc, tcls, tlocal, scans, returned>>
    /\ UNCHANGED pvVars

-----------------------------------------------------------------------------
(* The specifications *)

\* process_view alone: installed() is never called
Init == PvInit /\ InstInit /\ MIDDLEWARE_CLASSES = <<Other, PageMiddleware>>

Next ==
    \/ Call
    \/ CheckConfig
    \/ Lookup
    \/ CheckLogin
    \/ CallView
    \/ HandleHttp404
    \/ CallPageView
    \/ LoadProcessors
    \/ SkipProcessor
    \/ RunProcessor
    \/ ReturnResponse
    \/ Done

Spec == Init /\ [][Next]_vars

\* installed() alone, called from NumThreads threads
InitInstalled ==
    /\ PvInit
    /\ CP \in settings.TEMPLATE_CONTEXT_PROCESSORS
    /\ processors = CHOOSE r \in Registries : "link" \in DOMAIN r
    /\ InstInit

NextInstalled ==
    \/ \E t \in Threads : InstalledCall(t)
    \/ \E t \in Threads : TryCached(t)
    \/ \E t \in Threads : Scan(t)
    \/ \E t \in Threads : SetAndReturn(t)
    \/ ChangeSettings

SpecInstalled == InitInstalled /\ [][NextInstalled]_vars

-----------------------------------------------------------------------------
(* What the claims read from a state *)

Last(s) == s[Len(s)]

\* the page lookup of this call, once made
LookedUp == Len(calls) >= 1
LookupCall == calls[1]

\* position of the first token `tok` in s, 0 if there is none
IndexOf(s, tok) ==
    IF \E i \in 1..Len(s) : s[i] = tok
    THEN CHOOSE i \in 1..Len(s) : s[i] = tok /\ \A j \in 1..(i - 1) : s[j] # tok
    ELSE 0

AfterFirst(s, tok) == LET i == IndexOf(s, tok) IN IF i = 0 THEN <<>> ELSE SubSeq(s, i + 1, Len(s))
UpToFirst(s, tok) == LET i == IndexOf(s, tok) IN IF i = 0 THEN s ELSE SubSeq(s, 1, i - 1)

UnquoteToken(c) ==
    CASE c = "%20" -> " "
      [] c = "%25" -> "%"
      [] c = "%26" -> "&"
      [] c = "%3D" -> "="
      [] c = "%3F" -> "?"
      [] OTHER -> c

\* The value the login view reads from the redirect URL: the query string is
\* split at "&", the pair named REDIRECT_FIELD_NAME is taken and unquoted.
ReturnParameter(url) ==
    LET pair == UpToFirst(AfterFirst(url, "?"), "&")
    IN IF Len(pair) >= 2 /\ pair[1] = REDIRECT_FIELD_NAME /\ pair[2] = "="
       THEN [i \in 1..(Len(pair) - 2) |-> UnquoteToken(pair[i + 2])]
       ELSE <<>>

-----------------------------------------------------------------------------
(* The claims *)

\* C1: when the page lookup returns no page, process_view returns None at
\* once: the lookup is the only call it made (no view, no page view, no
\* processor), there is no response whose context could change, and the
\* request has no "page" attribute.
C1_NoPageReturnsNone ==
    (LookedUp /\ LookupCall.pages = <<>>) =>
        /\ pc = "done"
        /\ result = [kind |-> "None"]
        /\ Len(calls) = 1
        /\ response = NoResponse
        /\ request.page = NoPage

C1_Witness == pc = "done" /\ LookedUp /\ LookupCall.pages = <<>> /\ result.kind = "None"

\* C2: when the resolved page requires login and the viewer is not
\* authenticated, process_view returns a redirect to LOGIN_URL whose return
\* parameter decodes to the request's full path, and it made no call but the
\* page lookup: no view, no page view, no processor ran.
C2_LoginRedirect ==
    (page # NoPage /\ pc # "login" /\ page.login_required /\ ~request.authenticated) =>
        /\ pc = "done"
        /\ result.kind = "redirect"
        /\ UpToFirst(result.url, "?") = LOGIN_URL
        /\ ReturnParameter(result.url) = get_full_path(request)
        /\ Len(calls) = 1

C2_Witness ==
    /\ pc = "done"
    /\ result.kind = "redirect"
    /\ request.query # <<>>
    /\ page.login_required /\ ~request.authenticated

\* C8: when the page context processor is not configured, process_view raises
\* ImproperlyConfigured before anything else: no lookup or other call was
\* made and the request has no "page" attribute.
C8_ConfigurationError ==
    (CP \notin settings.TEMPLATE_CONTEXT_PROCESSORS /\ pc \notin {"idle", "config"}) =>
        /\ pc = "done"
        /\ result = [kind |-> "raise", exc |-> "ImproperlyConfigured"]
        /\ calls = <<>>
        /\ request.page = NoPage
        /\ response = NoResponse

C8_Witness ==
    /\ pc = "done"
    /\ CP \notin settings.TEMPLATE_CONTEXT_PROCESSORS
    /\ result.kind = "raise"

\* the processor calls made so far, in order
IsProcessorCall(c) == c.fn = "processor"
ProcessorCalls == SelectSeq(calls, IsProcessorCall)
Returned(c) == c.fn = "processor" /\ c.outcome.raises = ""

\* the call (of the dispatched view or of the page view) that gave the response
IsViewCall(c) == c.fn \in {"view_func", "page_view"}
ViewCalls == SelectSeq(calls, IsViewCall)
OriginalContext == Last(ViewCalls).outcome.response.context_data

RaisedValueErrorFor(p) ==
    pc = "done" /\ result.kind = "raise" /\ result.exc = "ValueError" /\ result.processor = p

SequenceRaisesTypeError(l, d) ==
    \E i \in 1..Len(l) :
        /\ ~IsInt(l[i]) /\ l[i] \notin DOMAIN d
        /\ \A j \in 1..(i - 1) :
             ~(IsInt(l[j]) /\ l[j] \notin DOMAIN d
               /\ (l[j].int >= Len(l) \/ l[j].int < -Len(l)))

\* The return values, not a response and not a mapping, for which lines
\* 123-133 raise the value error, given the context data before the call
ExpectValueError(v, cd) ==
    /\ Truthy(v)
    /\ \/ v.t = "int"
       \/ v.t = "list" /\ cd.t = "None"
       \/ v.t = "list" /\ cd.t = "dict" /\ SequenceRaisesTypeError(v.l, cd.d)

OnlyMappings ==
    \A i \in 1..Len(calls) :
        IsProcessorCall(calls[i]) =>
            Returned(calls[i]) /\ calls[i].outcome.value.t \in {"HttpResponse", "dict", "None"}

\* the calls that returned a mapping holding key k
Suppliers(k) ==
    {i \in 1..Len(calls) : Returned(calls[i]) /\ calls[i].outcome.value.t = "dict"
                            /\ k \in DOMAIN calls[i].outcome.value.d}
FirstSupplier(k) == CHOOSE i \in Suppliers(k) : \A j \in Suppliers(k) : i <= j
SuppliedKeys == UNION {DOMAIN calls[i].outcome.value.d :
                         i \in {j \in 1..Len(calls) : Returned(calls[j]) /\ calls[j].outcome.value.t = "dict"}}

\* C4: every key of the context the view's response came with keeps its
\* value whatever the processors return; and when the processors return
\* mappings, the context holds exactly the original keys and the supplied
\* ones, a supplied key that was not there holding the value of the first
\* processor, in invocation order, that supplied it.
C4_ContextKeysNotOverwritten ==
    (response # NoResponse /\ OriginalContext.t = "dict") =>
        /\ response.context_data.t = "dict"
        /\ \A k \in DOMAIN OriginalContext.d :
             /\ k \in DOMAIN response.context_data.d
             /\ response.context_data.d[k] = OriginalContext.d[k]
        /\ OnlyMappings =>
             /\ DOMAIN response.context_data.d = DOMAIN OriginalContext.d \cup SuppliedKeys
             /\ \A k \in SuppliedKeys \ DOMAIN OriginalContext.d :
                  response.context_data.d[k] = calls[FirstSupplier(k)].outcome.value.d[k]
        /\ (pc = "done" /\ result.kind = "response"
            /\ ~(Returned(Last(calls)) /\ IsHttpResponse(Last(calls).outcome.value))) =>
                result.response = response

C4_Witness ==
    /\ pc = "done" /\ result.kind = "response" /\ result.response = response
    /\ OnlyMappings
    /\ OriginalContext.t = "dict"
    /\ Ka \in DOMAIN OriginalContext.d
    /\ Suppliers(Ka) # {}
    /\ \E j \in Suppliers(Kb) :
         calls[j].outcome.value.d[Kb] # result.response.context_data.d[Kb]

\* the dispatched view was called and raised Http404
ViewRaisedHttp404 ==
    Len(calls) >= 2 /\ calls[2].fn = "view_func" /\ calls[2].outcome.raises = "Http404"

\* C5: when the dispatched view raises Http404, the page view is called with
\* the derived slug (and its response, if it returns one, becomes the
\* response) exactly when the page's slug is the derived slug, the dispatched
\* view is not the page view and the content model is not "link"; otherwise
\* Http404 is raised to the caller and no processor is called.
C5_FallbackToPageView ==
    (ViewRaisedHttp404 /\ pc # "except") =>
        IF page.slug = slug /\ view_func # page_view /\ page.content_model # "link"
        THEN \/ pc = "page_view" /\ Len(calls) = 2
             \/ /\ Len(calls) >= 3
                /\ calls[3].fn = "page_view"
                /\ calls[3].slug = slug
                /\ calls[3].outcome.raises = "" => response.by = page_view
                /\ calls[3].outcome.raises # "" =>
                       pc = "done" /\ result = [kind |-> "raise", exc |-> calls[3].outcome.raises]
        ELSE /\ pc = "done"
             /\ result = [kind |-> "raise", exc |-> "Http404"]
             /\ Len(calls) = 2

C5_Witness ==
    /\ ViewRaisedHttp404
    /\ Len(calls) >= 4
    /\ calls[3].fn = "page_view"
    /\ calls[4].fn = "processor"

\* slug-registered entries, then model-registered entries, without the
\* "exact page only" entries when the page is not current
RECURSIVE Names(_)
Names(es) == IF es = <<>> THEN <<>> ELSE <<Head(es).processor>> \o Names(Tail(es))
Allowed(e) == ~e.exact_page \/ page.is_current
Registered(key) == IF key \in DOMAIN processors THEN processors[key] ELSE <<>>
ExpectedOrder ==
    Names(SelectSeq(Registered("slug:" \o page.slug), Allowed))
    \o Names(SelectSeq(Registered(page.content_model), Allowed))
IsPrefix(a, b) == Len(a) <= Len(b) /\ SubSeq(b, 1, Len(a)) = a

\* C6: the processors called for a resolved page are, in order, a prefix of:
\* the entries registered for "slug:<page slug>" in registration order, then
\* the entries registered for the page's content model in registration order,
\* each entry once, leaving out every "exact page only" entry when the page is
\* not current; when process_view returns the view's response (no processor
\* returned a response or raised) all of them were called.
C6_ProcessorOrder ==
    (page # NoPage) =>
        /\ IsPrefix(Names(ProcessorCalls), ExpectedOrder)
        /\ (pc = "done" /\ result.kind = "response" /\ result.response.by \in ViewFuncs) =>
              Names(ProcessorCalls) = ExpectedOrder

C6_Witness ==
    /\ pc = "done" /\ result.kind = "response" /\ result.response.by \in ViewFuncs
    /\ Len(ProcessorCalls) = 2
    /\ Len(Registered("slug:" \o page.slug)) = 2
    /\ ~page.is_current

\* C7: a processor that returns a response ends process_view: it is the last
\* call made, and process_view returns that very response, with the context
\* data the processor gave it and none of the keys merged into the view's
\* response.
C7_ProcessorResponseShortCircuits ==
    \A i \in 1..Len(calls) :
        (Returned(calls[i]) /\ IsHttpResponse(calls[i].outcome.value)) =>
            /\ i = Len(calls)
            /\ pc = "done"
            /\ result = [kind |-> "response", response |-> calls[i].outcome.value]

C7_Witness ==
    /\ pc = "done" /\ result.kind = "response" /\ result.response.by \notin ViewFuncs
    /\ Len(ProcessorCalls) >= 2
    /\ queue # <<>>
    /\ response.context_data.t = "dict"
    /\ Ka \in DOMAIN response.context_data.d
    /\ Ka \notin DOMAIN result.response.context_data.d

\* C10 as stated: the value error is raised only for a processor that
\* returned something that is neither a response, nor a mapping, nor None.
C10_AsStated ==
    (pc = "done" /\ result.kind = "raise" /\ result.exc = "ValueError") =>
        Last(calls).outcome.value.t \notin {"HttpResponse", "dict", "None"}

\* C9 as stated: the settings scan runs at most once, and every call of
\* installed() returns what the first call returned.
C9_AsStated ==
    /\ scans <= 1
    /\ \A i \in 1..Len(returned) : returned[i] = returned[1]

====
